---- MODULE Spec2Model ----
(***************************************************************************)
(* A model of mly's loop detection (src/loop_find.rs), channel state       *)
(* tracking (src/state.rs), event inspection (src/event.rs), timekeeping   *)
(* and B/P arguments (src/time.rs), the cut and loop-unfold manipulations  *)
(* (src/manip.rs) and the flattening of sequences (src/smf.rs).            *)
(*                                                                         *)
(* Code indices are 0-based; a track is a TLA+ sequence, so the event the  *)
(* code calls track[i] is At(track, i) == track[i + 1].                    *)
(***************************************************************************)
EXTENDS Integers, Sequences, FiniteSets, TLC

VARIABLES
    track,          \* loop_find::find: smf.tracks[0]; the track MidiTime is folded over
    samplerate,     \* opts.samplerate.is_some()
    chunks,         \* the parallel fold: per chunk of cursors [next, end, longest]
    note_loop,      \* find: note_loop
    rec_cursor,     \* find: the cursor of the recording-space find_map
    recording_loop, \* find: recording_loop
    pc,             \* the position of the command
    time,           \* MidiTime: [pulse, realtime, qn_duration]
    added,          \* the number of events of track added to time so far
    smf,            \* manip::cut: smf.tracks as parsed
    range,          \* manip::cut: range = (range.0, range.1)
    smf_cut,        \* smf.tracks as the first cut left them
    smf_twice,      \* smf.tracks as the second cut with the same range left them
    merge_tracks,   \* smf::smf0: merge_tracks, each [src, i, len, pulse_of_i]
    merged_pulse,   \* smf0: pulse
    delta_last,     \* smf0: delta_last
    flat,           \* smf0: smf0.tracks[0]
    origin,         \* for each event of flat, the track and index it was taken from
    input,          \* PulseOrBeat::from_str: s, a sequence of characters
    timing,         \* total_pulse: timing
    parsed,         \* the Result of from_str: PulseOrBeat::value
    total,          \* the Result of total_pulse
    unfold_start,   \* manip::loop_unfold: start
    smf_unfolded,   \* loop_unfold: smf.tracks as the call leaves them in memory
    e_cursor,       \* find_loop_ending_at: cursor
    e_earliest,     \* find_loop_ending_at: earliest_start
    e_min_len,      \* find_loop_ending_at: min_len
    e_recording,    \* find_loop_ending_at: in_recording_space
    e_start,        \* find_loop_ending_at: start
    e_before,       \* find_loop_ending_at: state_before
    e_scan,         \* state_past, redundant_ccs, played_a_note, notes_active_on
    e_scanned,      \* the number of events of the body the scan has taken
    e_skip,         \* the `continue` the last iteration left by, "" when none
    e_found         \* the Option<Loop> find_loop_ending_at returns

\* The variables of smf::smf0
mergeVars == <<merge_tracks, merged_pulse, delta_last, flat, origin>>

\* The variables of PulseOrBeat
parseVars == <<input, timing, parsed, total>>

\* The variables of manip::loop_unfold
unfoldVars == <<unfold_start, smf_unfolded>>

\* The variables of one call of find_loop_ending_at
endingVars == <<e_cursor, e_earliest, e_min_len, e_recording, e_start, e_before,
                e_scan, e_scanned, e_skip, e_found>>

vars == <<track, samplerate, chunks, note_loop, rec_cursor, recording_loop,
          pc, time, added, smf, range, smf_cut, smf_twice, mergeVars, parseVars,
          unfoldVars, endingVars>>

----------------------------------------------------------------------------
(* Bounds of the model *)

\* Longest track drawn exhaustively from Alphabet and from TimeAlphabet
MaxLen == 4

\* Largest number of chunks the cursor range is split into
MaxChunks == 2

\* Longest track drawn exhaustively from CutAlphabet
MaxCutLen == 3

\* Longest track drawn exhaustively from MergeAlphabet
MaxMergeLen == 2

\* Longest track drawn exhaustively from EndingAlphabet
MaxEndingLen == 4

\* Longest track drawn exhaustively from UnfoldAlphabet
MaxUnfoldLen == 3

\* Largest of the consecutive numbers written out as B/P inputs
MaxNumber == 12

\* Longest B/P input drawn exhaustively from InputAlphabet
MaxInputLen == 3

----------------------------------------------------------------------------
(* Events: midly's TrackEvent { delta, kind }.  kind is flattened into a   *)
(* tag, the channel and two data fields.                                   *)

Ev(delta, kind, ch, d1, d2) ==
    [delta |-> delta, kind |-> kind, ch |-> ch, d1 |-> d1, d2 |-> d2]

NoteOn(delta, ch, key, vel) == Ev(delta, "NoteOn", ch, key, vel)

NoteOff(delta, ch, key, vel) == Ev(delta, "NoteOff", ch, key, vel)

Controller(delta, ch, cc, value) == Ev(delta, "Controller", ch, cc, value)

ProgramChange(delta, ch, program) == Ev(delta, "ProgramChange", ch, program, 0)

PitchBend(delta, ch, bend) == Ev(delta, "PitchBend", ch, bend, 0)

Tempo(delta, tempo) == Ev(delta, "Tempo", 0, tempo, 0)

EndOfTrack(delta) == Ev(delta, "EndOfTrack", 0, 0, 0)

At(t, i) == t[i + 1]

Min(a, b) == IF a < b THEN a ELSE b

\* Rust's iter().skip(skip).take(take) over a slice, as the sequence it yields
SkipTake(t, skip, take) ==
    IF skip >= Len(t) THEN << >> ELSE SubSeq(t, skip + 1, Min(skip + take, Len(t)))

----------------------------------------------------------------------------
(* state.rs: MidiState *)

NumChannels == 16

NumControllers == 128

BendMid == 8192

MidiStateNew ==
    [ch |-> [c \in 0..(NumChannels - 1) |->
                [cc |-> [n \in 0..(NumControllers - 1) |-> 0],
                 program |-> 0,
                 bend |-> BendMid]],
     tempo |-> 0]

MidiStateUpdate(s, ev) ==
    CASE ev.kind = "Controller" -> [s EXCEPT !.ch[ev.ch].cc[ev.d1] = ev.d2]
      [] ev.kind = "ProgramChange" -> [s EXCEPT !.ch[ev.ch].program = ev.d1]
      [] ev.kind = "PitchBend" -> [s EXCEPT !.ch[ev.ch].bend = ev.d1]
      [] ev.kind = "Tempo" -> [s EXCEPT !.tempo = ev.d1]
      [] OTHER -> s

\* for ev in events { state.update(ev) }
RECURSIVE UpdateAll(_, _)
UpdateAll(s, events) ==
    IF events = << >> THEN s
    ELSE UpdateAll(MidiStateUpdate(s, Head(events)), Tail(events))

----------------------------------------------------------------------------
(* event.rs *)

\* event::note(ev).is_some()
IsNote(ev) == ev.kind = "NoteOn"

\* Note::is_on
IsOn(ev) == ev.d2 > 0

\* event::controller(ev).is_some()
IsController(ev) == ev.kind = "Controller"

----------------------------------------------------------------------------
(* loop_find.rs *)

LoopDefault == [start |-> 0, len |-> 0]

\* Faulty variant: the tie between equally long loops goes to the later start
better_than_LaterStart(self, other) ==
    (self.len > other.len) \/ ((self.len = other.len) /\ (self.start > other.start))

better_than(self, other) ==
    (self.len > other.len) \/ ((self.len = other.len) /\ (self.start < other.start))

\* Faulty variant: the factor range stops before len / 2
loop_contains_itself_ShortRange(t, found_loop) ==
    \E factor \in 2..((found_loop.len \div 2) - 1) :
        /\ found_loop.len % factor = 0
        /\ LET section_len == found_loop.len \div factor
           IN \A section_i \in 1..(factor - 1) :
                SkipTake(SkipTake(t, found_loop.start, Len(t)), 0, section_len)
                    = SkipTake(SkipTake(t, found_loop.start, Len(t)),
                               section_i * section_len, section_len)

loop_contains_itself(t, found_loop) ==
    \E factor \in 2..(found_loop.len \div 2) :
        /\ found_loop.len % factor = 0
        /\ LET section_len == found_loop.len \div factor
           IN \A section_i \in 1..(factor - 1) :
                SkipTake(SkipTake(t, found_loop.start, Len(t)), 0, section_len)
                    = SkipTake(SkipTake(t, found_loop.start, Len(t)),
                               section_i * section_len, section_len)

\* Faulty variant: the pulse-boundary rule is missing
PulseBoundarySkip_Never(start_ev, cursor_ev) == FALSE

\* if start_ev.delta == 0 || cursor_ev.delta == 0 { continue; }
PulseBoundarySkip(start_ev, cursor_ev) == start_ev.delta = 0 \/ cursor_ev.delta = 0

\* if let ... ProgramChange ... = start_ev.kind { continue; }
ProgramChangeSkip(start_ev) == start_ev.kind = "ProgramChange"

\* Faulty variant: the ranges are compared pairwise as far as the track goes, so a
\* repetition cut short by the end of the track passes
RangeDiffers_Zip(t, start, cursor) ==
    \E i \in 0..(cursor - start - 1) :
        cursor + i < Len(t) /\ At(t, start + i) # At(t, cursor + i)

\* Faulty variant: the last event of the range is not compared
RangeDiffers_OneShort(t, start, cursor) ==
    SkipTake(t, start, cursor - start - 1) # SkipTake(t, cursor, cursor - start - 1)

\* if before_cursor.ne(past_cursor) { continue; }
RangeDiffers(t, start, cursor) ==
    SkipTake(t, start, cursor - start) # SkipTake(t, cursor, cursor - start)

\* Faulty variant: a NoteOn of any velocity counts as a played note
ScanStep_AnyVelocity(acc, ev) ==
    LET past == MidiStateUpdate(acc.state_past, ev)
        played == IF IsNote(ev)
                  THEN [acc.played_a_note EXCEPT ![ev.ch] = TRUE]
                  ELSE acc.played_a_note
        active == IF IsNote(ev)
                  THEN IF IsOn(ev)
                       THEN [acc.notes_active_on EXCEPT ![ev.ch] = @ + 1]
                       ELSE IF acc.notes_active_on[ev.ch] > 0
                            THEN [acc.notes_active_on EXCEPT ![ev.ch] = @ - 1]
                            ELSE acc.notes_active_on
                  ELSE acc.notes_active_on
        redundant == IF IsController(ev) /\ ~played[ev.ch]
                     THEN acc.redundant_ccs \cup {<<ev.ch, ev.d1>>}
                     ELSE acc.redundant_ccs
    IN [state_past |-> past, redundant_ccs |-> redundant,
        played_a_note |-> played, notes_active_on |-> active]

\* The body of `for ev in track.iter().skip(start).take(len)`, once
ScanStep(acc, ev) ==
    LET past == MidiStateUpdate(acc.state_past, ev)
        played == IF IsNote(ev) /\ IsOn(ev)
                  THEN [acc.played_a_note EXCEPT ![ev.ch] = TRUE]
                  ELSE acc.played_a_note
        active == IF IsNote(ev)
                  THEN IF IsOn(ev)
                       THEN [acc.notes_active_on EXCEPT ![ev.ch] = @ + 1]
                       ELSE IF acc.notes_active_on[ev.ch] > 0
                            THEN [acc.notes_active_on EXCEPT ![ev.ch] = @ - 1]
                            ELSE acc.notes_active_on
                  ELSE acc.notes_active_on
        redundant == IF IsController(ev) /\ ~played[ev.ch]
                     THEN acc.redundant_ccs \cup {<<ev.ch, ev.d1>>}
                     ELSE acc.redundant_ccs
    IN [state_past |-> past, redundant_ccs |-> redundant,
        played_a_note |-> played, notes_active_on |-> active]

RECURSIVE ScanAll(_, _)
ScanAll(acc, events) ==
    IF events = << >> THEN acc ELSE ScanAll(ScanStep(acc, Head(events)), Tail(events))

\* state_past, redundant_ccs, played_a_note and notes_active_on after the scan
ScanBody(t, start, len, state_before) ==
    ScanAll([state_past |-> state_before,
             redundant_ccs |-> {},
             played_a_note |-> [c \in 0..(NumChannels - 1) |-> FALSE],
             notes_active_on |-> [c \in 0..(NumChannels - 1) |-> 0]],
            SkipTake(t, start, len))

\* Faulty variant: the active-note test runs in note space too
ActiveNoteSkip_BothSpaces(in_recording_space, scan, state_before) ==
    \E c \in 0..(NumChannels - 1) :
        scan.notes_active_on[c] > 0 /\ state_before.ch[c] # scan.state_past.ch[c]

\* Faulty variant: the active-note test is missing
ActiveNoteSkip_Never(in_recording_space, scan, state_before) == FALSE

\* in_recording_space && notes_active_on...any(|(ch, active)| ...)
ActiveNoteSkip(in_recording_space, scan, state_before) ==
    /\ in_recording_space
    /\ \E c \in 0..(NumChannels - 1) :
        scan.notes_active_on[c] > 0 /\ state_before.ch[c] # scan.state_past.ch[c]

\* for CCOnChannel { ch, cc } in redundant_ccs { state_past.ch[ch].cc[cc] = ... }
OverrideRedundant(scan, state_before) ==
    [tempo |-> scan.state_past.tempo,
     ch |-> [c \in 0..(NumChannels - 1) |->
                [cc |-> [n \in 0..(NumControllers - 1) |->
                            IF <<c, n>> \in scan.redundant_ccs
                            THEN state_before.ch[c].cc[n]
                            ELSE scan.state_past.ch[c].cc[n]],
                 program |-> scan.state_past.ch[c].program,
                 bend |-> scan.state_past.ch[c].bend]]]

\* if state_before != state_past { continue; }
StateSkip(scan, state_before) == state_before # OverrideRedundant(scan, state_before)

\* One iteration of `for start in ...`, from after state_before.update(start_ev):
\* TRUE when it reaches `return Some(new)`
Accepts(t, start, cursor, in_recording_space, state_before) ==
    LET start_ev == At(t, start)
        cursor_ev == At(t, cursor)
        len == cursor - start
        scan == ScanBody(t, start, len, state_before)
    IN /\ ~PulseBoundarySkip(start_ev, cursor_ev)
       /\ ~ProgramChangeSkip(start_ev)
       /\ start_ev = cursor_ev
       /\ ~RangeDiffers(t, start, cursor)
       /\ ~ActiveNoteSkip(in_recording_space, scan, state_before)
       /\ ~StateSkip(scan, state_before)
       /\ ~loop_contains_itself(t, [start |-> start, len |-> len])

NoLoop == [some |-> FALSE, start |-> 0, len |-> 0]

\* Faulty variant: state_before is left as the previous iteration had it
UpdateStateBefore_Late(state_prev, start_ev) == state_prev

\* state_before.update(start_ev), the first statement of an iteration
UpdateStateBefore(state_prev, start_ev) == MidiStateUpdate(state_prev, start_ev)

\* The locals of the body scan before its first event
ScanInit(state_before) ==
    [state_past |-> state_before,
     redundant_ccs |-> {},
     played_a_note |-> [c \in 0..(NumChannels - 1) |-> FALSE],
     notes_active_on |-> [c \in 0..(NumChannels - 1) |-> 0]]

\* The variables of find_loop_ending_at while another command runs
EndingIdle ==
    /\ e_cursor = 0
    /\ e_earliest = 0
    /\ e_min_len = 0
    /\ e_recording = FALSE
    /\ e_start = 0
    /\ e_before = << >>
    /\ e_scan = << >>
    /\ e_scanned = 0
    /\ e_skip = ""
    /\ e_found = NoLoop

\* `for start in start..end`, state_prev being state_before as the previous
\* iteration left it
RECURSIVE StartLoop(_, _, _, _, _, _)
StartLoop(t, start, end, cursor, in_recording_space, state_prev) ==
    IF start >= end THEN NoLoop
    ELSE LET state_before == MidiStateUpdate(state_prev, At(t, start))
         IN IF Accepts(t, start, cursor, in_recording_space, state_before)
            THEN [some |-> TRUE, start |-> start, len |-> cursor - start]
            ELSE StartLoop(t, start + 1, end, cursor, in_recording_space, state_before)

find_loop_ending_at(cursor, earliest_start, min_len, t, in_recording_space) ==
    StartLoop(t, earliest_start, cursor - min_len, cursor, in_recording_space,
              UpdateAll(MidiStateNew, SkipTake(t, 0, earliest_start)))

\* .unwrap_or(longest) / .unwrap_or_default()
UnwrapOr(found, default) ==
    IF found.some THEN [start |-> found.start, len |-> found.len] ELSE default

\* Faulty variant: the running best length is not passed on as min_len
FoldClosure_NoMinLen(t, longest, cursor) ==
    UnwrapOr(find_loop_ending_at(cursor, 0, 0, t, FALSE), longest)

\* |longest, cursor| find_loop_ending_at(cursor, 0, longest.len, track, false).unwrap_or(longest)
FoldClosure(t, longest, cursor) ==
    UnwrapOr(find_loop_ending_at(cursor, 0, longest.len, t, FALSE), longest)

\* |a, b| if a.better_than(&b) { a } else { b }
Reducer(a, b) == IF better_than(a, b) THEN a ELSE b

----------------------------------------------------------------------------
(* time.rs: MidiTime.  Durations are whole microseconds. *)

None == [some |-> FALSE, v |-> 0]

Some(x) == [some |-> TRUE, v |-> x]

\* Timing::Metrical(ppqn) of the header
PPQN == 480

\* MidiTime::new
MidiTimeNew == [pulse |-> 0, realtime |-> None, qn_duration |-> None]

\* impl Add<&TrackEvent> for MidiTime; unwrap_or_default() of None is 0
MidiTimeAdd(self, ev) ==
    LET pulse == self.pulse + ev.delta
    IN [pulse |-> pulse,
        realtime |-> IF self.qn_duration.some /\ (self.realtime.some \/ pulse = 0)
                     THEN Some(self.realtime.v
                               + (self.qn_duration.v * ev.delta) \div PPQN)
                     ELSE None,
        qn_duration |-> IF ev.kind = "Tempo" THEN Some(ev.d1) ELSE self.qn_duration]

\* track.iter().fold(time_init, |acc, ev| acc + ev).pulse
RECURSIVE TrackPulse(_)
TrackPulse(t) == IF t = << >> THEN 0 ELSE TrackPulse(SubSeq(t, 1, Len(t) - 1)) + t[Len(t)].delta

\* MidiTimeDisplay::new_at_end(smf, None).time.pulse()
RECURSIVE EndPulse(_)
EndPulse(tracks) ==
    IF tracks = << >> THEN 0
    ELSE LET rest == EndPulse(Tail(tracks))
             first == TrackPulse(Head(tracks))
         IN IF first > rest THEN first ELSE rest

\* validate_pulse_range(smf, range).is_ok()
validate_pulse_range(tracks, r) ==
    LET len == EndPulse(tracks)
        ret_end == IF r.end.some THEN r.end.v ELSE len
    IN ~(r.start > len) /\ ~(ret_end > len)

----------------------------------------------------------------------------
(* time.rs: PulseOrBeat.  A string is a sequence of one-character strings. *)

Digits == <<"0", "1", "2", "3", "4", "5", "6", "7", "8", "9">>

IsDigit(c) == \E d \in DOMAIN Digits : Digits[d] = c

DigitValue(c) == (CHOOSE d \in DOMAIN Digits : Digits[d] = c) - 1

\* u16::MAX
U16Max == 65535

\* The largest u15
U15Max == 32767

Ok(x) == [ok |-> TRUE, v |-> x]

Err == [ok |-> FALSE, v |-> 0]

\* The digits of s read as a decimal number, Err past max
RECURSIVE ParseDigits(_, _, _)
ParseDigits(s, acc, max) ==
    IF s = << >> THEN Ok(acc)
    ELSE IF ~IsDigit(Head(s)) THEN Err
    ELSE LET next == acc * 10 + DigitValue(Head(s))
         IN IF next > max THEN Err ELSE ParseDigits(Tail(s), next, max)

\* str::parse of an unsigned integer: an optional '+', then at least one digit
ParseUnsigned(s, max) ==
    LET digits == IF s # << >> /\ Head(s) = "+" THEN Tail(s) ELSE s
    IN IF digits = << >> THEN Err ELSE ParseDigits(digits, 0, max)

\* A number no input of the model reaches, where the code has u64::MAX
U64Cap == 2000000000

\* s.split_once(':')
SplitOnce(s) ==
    LET colons == {i \in DOMAIN s : s[i] = ":"}
    IN IF colons = {} THEN None
       ELSE LET at == CHOOSE i \in colons : \A j \in colons : i <= j
            IN Some(<<SubSeq(s, 1, at - 1), SubSeq(s, at + 1, Len(s))>>)

\* Faulty variant: the pulse part is any u16
from_str_AnyU16(s) ==
    LET split == SplitOnce(s)
    IN IF split.some
       THEN LET s_qn == IF split.v[1] = << >> THEN <<"0">> ELSE split.v[1]
                s_pulse == IF split.v[2] = << >> THEN <<"0">> ELSE split.v[2]
                qn == ParseUnsigned(s_qn, U64Cap)
                p == ParseUnsigned(s_pulse, U16Max)
            IN IF ~qn.ok \/ ~p.ok THEN Err
               ELSE Ok([beat |-> TRUE, qn |-> qn.v, pulse |-> p.v])
       ELSE LET p == ParseUnsigned(s, U64Cap)
            IN IF ~p.ok THEN Err ELSE Ok([beat |-> FALSE, qn |-> 0, pulse |-> p.v])

\* impl FromStr for PulseOrBeat
from_str(s) ==
    LET split == SplitOnce(s)
    IN IF split.some
       THEN LET s_qn == IF split.v[1] = << >> THEN <<"0">> ELSE split.v[1]
                s_pulse == IF split.v[2] = << >> THEN <<"0">> ELSE split.v[2]
                qn == ParseUnsigned(s_qn, U64Cap)
                p == ParseUnsigned(s_pulse, U16Max)
            IN IF ~qn.ok \/ ~p.ok \/ p.v > U15Max THEN Err
               ELSE Ok([beat |-> TRUE, qn |-> qn.v, pulse |-> p.v])
       ELSE LET p == ParseUnsigned(s, U64Cap)
            IN IF ~p.ok THEN Err ELSE Ok([beat |-> FALSE, qn |-> 0, pulse |-> p.v])

Metrical(ppqn) == [metrical |-> TRUE, ppqn |-> ppqn]

Timecode == [metrical |-> FALSE, ppqn |-> 0]

\* PulseOrBeat::total_pulse
total_pulse(v, t) ==
    IF ~v.beat THEN Ok(v.pulse)
    ELSE IF t.metrical THEN Ok(v.qn * t.ppqn + v.pulse)
    ELSE Err

\* The variables of PulseOrBeat while another command runs
ParseIdle == input = << >> /\ timing = Timecode /\ parsed = Err /\ total = Err

----------------------------------------------------------------------------
(* manip.rs *)

ends_with_end_of_track_event(t) == t # << >> /\ t[Len(t)].kind = "EndOfTrack"

end_of_track_index(t) == IF ends_with_end_of_track_event(t) THEN Len(t) - 1 ELSE Len(t)

\* The index of the first event whose cumulative pulse is at least pulse
find_event_at_or_after(pulse, t) ==
    LET hits == {i \in 0..(Len(t) - 1) : TrackPulse(SubSeq(t, 1, i + 1)) >= pulse}
    IN IF hits = {} THEN None ELSE Some(CHOOSE i \in hits : \A j \in hits : i <= j)

\* Faulty variant: the surviving event at start keeps its own delta
CutTrack_KeepDelta(t, r) ==
    LET start == find_event_at_or_after(r.start, t)
        found_end == IF r.end.some THEN find_event_at_or_after(r.end.v, t) ELSE None
        end == IF found_end.some THEN found_end.v ELSE end_of_track_index(t)
        drained == SubSeq(t, 1, start.v) \o SubSeq(t, end + 1, Len(t))
    IN IF ~start.some THEN [panic |-> FALSE, track |-> t]
       ELSE IF start.v > end THEN [panic |-> TRUE, track |-> t]
       ELSE IF ~ends_with_end_of_track_event(drained)
            THEN [panic |-> FALSE,
                  track |-> Append(drained, EndOfTrack(At(t, start.v).delta))]
       ELSE [panic |-> FALSE, track |-> drained]

\* The body of `for (track_i, track) in ...` of cut.  drain(start..end) panics
\* when start > end, and track[start] when start is past the drained track.
CutTrack(t, r) ==
    LET start == find_event_at_or_after(r.start, t)
        found_end == IF r.end.some THEN find_event_at_or_after(r.end.v, t) ELSE None
        end == IF found_end.some THEN found_end.v ELSE end_of_track_index(t)
        drained == SubSeq(t, 1, start.v) \o SubSeq(t, end + 1, Len(t))
    IN IF ~start.some THEN [panic |-> FALSE, track |-> t]
       ELSE IF start.v > end THEN [panic |-> TRUE, track |-> t]
       ELSE IF ~ends_with_end_of_track_event(drained)
            THEN [panic |-> FALSE,
                  track |-> Append(drained, EndOfTrack(At(t, start.v).delta))]
       ELSE IF start.v >= Len(drained) THEN [panic |-> TRUE, track |-> t]
       ELSE [panic |-> FALSE,
             track |-> [drained EXCEPT ![start.v + 1].delta = At(t, start.v).delta]]

\* manip::cut: "err" when the range is refused, "panic" when a track panics,
\* else "ok" and the tracks it writes
cut(tracks, r) ==
    IF ~validate_pulse_range(tracks, r) THEN [status |-> "err", tracks |-> tracks]
    ELSE IF \E i \in DOMAIN tracks : CutTrack(tracks[i], r).panic
         THEN [status |-> "panic", tracks |-> tracks]
    ELSE [status |-> "ok", tracks |-> [i \in DOMAIN tracks |-> CutTrack(tracks[i], r).track]]

----------------------------------------------------------------------------
(* smf.rs: smf0 *)

\* smf.tracks.iter().filter_map(|track| track.first().map(...)).collect()
RECURSIVE MergeTracksOf(_, _)
MergeTracksOf(tracks, src) ==
    IF src > Len(tracks) THEN << >>
    ELSE IF tracks[src] = << >> THEN MergeTracksOf(tracks, src + 1)
    ELSE <<[src |-> src, i |-> 0, len |-> Len(tracks[src]),
            pulse_of_i |-> tracks[src][1].delta]>>
         \o MergeTracksOf(tracks, src + 1)

\* min_by(|a, b| a.1.pulse_of_i.cmp(&b.1.pulse_of_i)): the first of the minima
MinByPulse(merges) ==
    CHOOSE m \in DOMAIN merges :
        /\ \A n \in DOMAIN merges : merges[m].pulse_of_i <= merges[n].pulse_of_i
        /\ \A n \in 1..(m - 1) : merges[n].pulse_of_i # merges[m].pulse_of_i

\* The variables of smf0 while another command runs
MergeIdle ==
    /\ merge_tracks = << >>
    /\ merged_pulse = 0
    /\ delta_last = 0
    /\ flat = << >>
    /\ origin = << >>

\* validate_pulse(smf, pulse).is_ok()
validate_pulse(tracks, p) == ~(p > EndPulse(tracks))

\* The body of `for (track_i, track) in ...` of loop_unfold, for a track that
\* ends with EndOfTrack: track.pop(), then track.extend(range)
UnfoldTrack(t, start_pulse) ==
    LET start == find_event_at_or_after(start_pulse, t)
        end == Len(t) - 1
        len == end - start.v
        unfolded_range == SkipTake(t, start.v, len)
    IN IF ~start.some THEN t
       ELSE SubSeq(t, 1, Len(t) - 1) \o unfolded_range

\* manip::loop_unfold: "pulse" when the start is refused, "eot" when a track
\* does not end with EndOfTrack, the tracks before it being unfolded already,
\* else "ok" and the tracks it writes
loop_unfold(tracks, start_pulse) ==
    LET open == {i \in DOMAIN tracks : ~ends_with_end_of_track_event(tracks[i])}
        first_open == IF open = {} THEN Len(tracks) + 1
                      ELSE CHOOSE i \in open : \A j \in open : i <= j
    IN IF ~validate_pulse(tracks, start_pulse)
       THEN [status |-> "pulse", tracks |-> tracks]
       ELSE [status |-> IF open = {} THEN "ok" ELSE "eot",
             tracks |-> [i \in DOMAIN tracks |->
                            IF i < first_open THEN UnfoldTrack(tracks[i], start_pulse)
                            ELSE tracks[i]]]

\* The variables of loop_unfold while another command runs
UnfoldIdle == unfold_start = 0 /\ smf_unfolded = << >>

----------------------------------------------------------------------------
(* The tracks the search is run on *)

RECURSIVE SeqsUpTo(_, _)
SeqsUpTo(S, n) ==
    IF n = 0 THEN {<< >>}
    ELSE LET shorter == SeqsUpTo(S, n - 1)
         IN shorter \cup {Append(t, e) : t \in shorter, e \in S}

\* A note, a controller change and a note on the pulse of its predecessor
Alphabet ==
    {NoteOn(240, 0, 60, 100), Controller(240, 0, 7, 5), NoteOn(0, 0, 60, 100)}

ShortTracks == SeqsUpTo(Alphabet, MaxLen)

\* spec.md, scenario S1
S1Track ==
    <<Tempo(0, 500000), NoteOn(0, 0, 60, 100), NoteOff(240, 0, 60, 0),
      NoteOn(240, 0, 62, 100), NoteOff(240, 0, 62, 0), NoteOn(240, 0, 60, 100),
      NoteOff(240, 0, 60, 0), NoteOn(240, 0, 62, 100), NoteOff(240, 0, 62, 0),
      EndOfTrack(0)>>

\* spec.md, scenario S2
S2Track == [i \in 1..8 |-> NoteOn(240, 0, 60, 100)]

\* Two full repetitions of a four-event phrase
PhraseTrack ==
    <<NoteOn(240, 0, 60, 100), NoteOff(240, 0, 60, 0),
      NoteOn(240, 0, 62, 100), NoteOff(240, 0, 62, 0),
      NoteOn(240, 0, 60, 100), NoteOff(240, 0, 60, 0),
      NoteOn(240, 0, 62, 100), NoteOff(240, 0, 62, 0)>>

\* Four repetitions of a two-event phrase
PeriodicTrack ==
    <<NoteOn(240, 0, 60, 100), NoteOff(240, 0, 60, 0),
      NoteOn(240, 0, 60, 100), NoteOff(240, 0, 60, 0),
      NoteOn(240, 0, 60, 100), NoteOff(240, 0, 60, 0),
      NoteOn(240, 0, 60, 100), NoteOff(240, 0, 60, 0)>>

\* A controller change on channel 0 before the channel's note, which is still
\* sounding at the end of the phrase
ActiveNoteTrack ==
    <<NoteOn(240, 1, 64, 100), Controller(240, 0, 11, 80), NoteOn(240, 0, 60, 100),
      NoteOn(240, 1, 64, 100), Controller(240, 0, 11, 80), NoteOn(240, 0, 60, 100),
      NoteOn(240, 1, 64, 100)>>

\* ActiveNoteTrack without its last event
ActiveNoteShortTrack == SubSeq(ActiveNoteTrack, 1, 6)

\* Program changes at the candidate starts
ProgramTrack ==
    <<ProgramChange(240, 0, 5), NoteOn(240, 0, 60, 100), ProgramChange(240, 0, 5),
      NoteOn(240, 0, 60, 100), ProgramChange(240, 0, 5)>>

\* A phrase of three notes that repeats, its last two notes being equal
NestedTrack ==
    <<NoteOn(240, 0, 60, 100), NoteOn(240, 0, 62, 100), NoteOn(240, 0, 62, 100),
      NoteOn(240, 0, 60, 100), NoteOn(240, 0, 62, 100), NoteOn(240, 0, 62, 100)>>

ScenarioTracks ==
    {S1Track, S2Track, PhraseTrack, PeriodicTrack, ActiveNoteTrack,
     ActiveNoteShortTrack, ProgramTrack, NestedTrack}

Tracks == ShortTracks \cup ScenarioTracks

----------------------------------------------------------------------------
(* loop_find::find as a state machine *)

RECURSIVE SortedSeq(_)
SortedSeq(S) ==
    IF S = {} THEN << >>
    ELSE LET m == CHOOSE x \in S : \A y \in S : x <= y
         IN <<m>> \o SortedSeq(S \ {m})

\* (0..track.len()).into_par_iter(), split at the cursors cs; every part is
\* folded from a clone of Loop::default()
ChunksOf(n, cs) ==
    LET b == <<0>> \o SortedSeq(cs) \o <<n>>
    IN [i \in 1..(Len(b) - 1) |->
            [next |-> b[i], end |-> b[i + 1], longest |-> LoopDefault]]

RemoveAt(s, j) == [i \in 1..(Len(s) - 1) |-> IF i < j THEN s[i] ELSE s[i + 1]]

IdleRange == [start |-> 0, end |-> None]

Init ==
    /\ track \in Tracks
    /\ samplerate \in BOOLEAN
    /\ chunks \in {ChunksOf(Len(track), cs) :
                    cs \in {x \in SUBSET (1..(Len(track) - 1)) : Cardinality(x) < MaxChunks}}
    /\ note_loop = LoopDefault
    /\ rec_cursor = 0
    /\ recording_loop = LoopDefault
    /\ pc = "fold"
    /\ time = MidiTimeNew
    /\ added = 0
    /\ smf = << >>
    /\ range = IdleRange
    /\ smf_cut = << >>
    /\ smf_twice = << >>
    /\ MergeIdle
    /\ ParseIdle
    /\ UnfoldIdle
    /\ EndingIdle

\* One call of the fold closure by the worker that holds chunk w
Fold(w) ==
    /\ pc = "fold"
    /\ chunks[w].next < chunks[w].end
    /\ chunks' = [chunks EXCEPT
                    ![w] = [next |-> @.next + 1, end |-> @.end,
                            longest |-> FoldClosure(track, @.longest, @.next)]]
    /\ UNCHANGED <<track, samplerate, note_loop, rec_cursor, recording_loop,
                   pc, time, added, smf, range, smf_cut, smf_twice>>
    /\ UNCHANGED <<mergeVars, parseVars, unfoldVars, endingVars>>

\* One call of the reducer on the results of two folded chunks
Reduce(i, j) ==
    /\ pc = "fold"
    /\ i # j
    /\ chunks[i].next = chunks[i].end
    /\ chunks[j].next = chunks[j].end
    /\ chunks' = RemoveAt([chunks EXCEPT
                              ![i] = [@ EXCEPT
                                        !.longest = Reducer(chunks[i].longest,
                                                            chunks[j].longest)]], j)
    /\ UNCHANGED <<track, samplerate, note_loop, rec_cursor, recording_loop,
                   pc, time, added, smf, range, smf_cut, smf_twice>>
    /\ UNCHANGED <<mergeVars, parseVars, unfoldVars, endingVars>>

\* Faulty variant: the recording-space search starts at the start of the loop
FirstRecordingCursor_AtStart(l) == l.start

\* The first cursor of the recording-space search: start + note_loop.len
FirstRecordingCursor(l) == l.start + l.len

\* The reduction ends, the folded results being consumed: note_loop is set, and
\* the recording-space search starts `if note_loop.len != 0 &&
\* opts.samplerate.is_some()`
Reduced ==
    /\ pc = "fold"
    /\ Len(chunks) = 1
    /\ chunks[1].next = chunks[1].end
    /\ note_loop' = Reducer(LoopDefault, chunks[1].longest)
    /\ IF note_loop'.len # 0 /\ samplerate
       THEN pc' = "recording" /\ rec_cursor' = FirstRecordingCursor(note_loop')
       ELSE pc' = "done" /\ rec_cursor' = rec_cursor
    /\ chunks' = << >>
    /\ UNCHANGED <<track, samplerate, recording_loop, time, added, smf, range, smf_cut, smf_twice>>
    /\ UNCHANGED <<mergeVars, parseVars, unfoldVars, endingVars>>

\* One call of the find_map closure
RecordingStep ==
    /\ pc = "recording"
    /\ rec_cursor < Len(track)
    /\ LET found == find_loop_ending_at(rec_cursor, note_loop.start, 0, track, TRUE)
       IN IF found.some
          THEN /\ recording_loop' = UnwrapOr(found, LoopDefault)
               /\ pc' = "done"
               /\ rec_cursor' = rec_cursor
          ELSE /\ rec_cursor' = rec_cursor + 1
               /\ UNCHANGED <<recording_loop, pc>>
    /\ UNCHANGED <<track, samplerate, chunks, note_loop,
                   time, added, smf, range, smf_cut, smf_twice>>
    /\ UNCHANGED <<mergeVars, parseVars, unfoldVars, endingVars>>

\* find_map ran out of cursors: .unwrap_or_default()
RecordingNone ==
    /\ pc = "recording"
    /\ rec_cursor >= Len(track)
    /\ recording_loop' = LoopDefault
    /\ pc' = "done"
    /\ UNCHANGED <<track, samplerate, chunks, note_loop, rec_cursor,
                   time, added, smf, range, smf_cut, smf_twice>>
    /\ UNCHANGED <<mergeVars, parseVars, unfoldVars, endingVars>>

Next ==
    \/ \E w \in DOMAIN chunks : Fold(w)
    \/ \E i \in DOMAIN chunks : \E j \in DOMAIN chunks : Reduce(i, j)
    \/ Reduced
    \/ RecordingStep
    \/ RecordingNone

Spec == Init /\ [][Next]_vars

----------------------------------------------------------------------------
(* MidiTime folded over a track, one event at a time *)

TimeAlphabet ==
    {Tempo(0, 500000), Tempo(240, 250000), NoteOn(0, 0, 60, 100), NoteOn(240, 0, 60, 100)}

InitTime ==
    /\ track \in SeqsUpTo(TimeAlphabet, MaxLen)
    /\ time = MidiTimeNew
    /\ added = 0
    /\ pc = "time"
    /\ samplerate = FALSE
    /\ chunks = << >>
    /\ note_loop = LoopDefault
    /\ rec_cursor = 0
    /\ recording_loop = LoopDefault
    /\ smf = << >>
    /\ range = IdleRange
    /\ smf_cut = << >>
    /\ smf_twice = << >>
    /\ MergeIdle
    /\ ParseIdle
    /\ UnfoldIdle
    /\ EndingIdle

\* time = time + ev
AddEvent ==
    /\ pc = "time"
    /\ added < Len(track)
    /\ time' = MidiTimeAdd(time, At(track, added))
    /\ added' = added + 1
    /\ UNCHANGED <<track, samplerate, chunks, note_loop, rec_cursor, recording_loop,
                   pc, smf, range, smf_cut, smf_twice>>
    /\ UNCHANGED <<mergeVars, parseVars, unfoldVars, endingVars>>

NextTime == AddEvent

SpecTime == InitTime /\ [][NextTime]_vars

----------------------------------------------------------------------------
(* manip::cut, run on a sequence and run again on what it wrote *)

CutAlphabet ==
    {NoteOn(1, 0, 60, 100), NoteOn(0, 0, 60, 100), EndOfTrack(1), EndOfTrack(0)}

\* One track, or two with a second track that may end later than the first
CutSmfs ==
    LET firsts == SeqsUpTo(CutAlphabet, MaxCutLen)
        seconds == {<<NoteOn(2, 1, 64, 100), EndOfTrack(0)>>,
                    <<NoteOn(1, 1, 64, 100), NoteOn(1, 1, 64, 0), EndOfTrack(2)>>}
    IN {<<t>> : t \in firsts} \cup {<<t, u>> : t \in firsts, u \in seconds}

\* total_pulse_of_range lets only ranges with start <= end through
CutRanges(tracks) ==
    LET pulses == 0..(EndPulse(tracks) + 1)
    IN {[start |-> a, end |-> None] : a \in pulses}
       \cup {r \in {[start |-> a, end |-> Some(b)] : a \in pulses, b \in pulses} :
                r.start <= r.end.v}

InitCut ==
    /\ smf \in CutSmfs
    /\ range \in CutRanges(smf)
    /\ smf_cut = << >>
    /\ smf_twice = << >>
    /\ MergeIdle
    /\ ParseIdle
    /\ UnfoldIdle
    /\ EndingIdle
    /\ pc = "cut"
    /\ track = << >>
    /\ time = MidiTimeNew
    /\ added = 0
    /\ samplerate = FALSE
    /\ chunks = << >>
    /\ note_loop = LoopDefault
    /\ rec_cursor = 0
    /\ recording_loop = LoopDefault

\* cut(smf, range)
Cut ==
    /\ pc = "cut"
    /\ LET res == cut(smf, range)
       IN /\ pc' = CASE res.status = "ok" -> "cut_again"
                      [] res.status = "err" -> "refused"
                      [] OTHER -> "panicked"
          /\ smf_cut' = IF res.status = "ok" THEN res.tracks ELSE smf_cut
    /\ UNCHANGED <<track, samplerate, chunks, note_loop, rec_cursor, recording_loop,
                   time, added, smf, range, smf_twice>>
    /\ UNCHANGED <<mergeVars, parseVars, unfoldVars, endingVars>>

\* cut(smf_cut, range)
CutAgain ==
    /\ pc = "cut_again"
    /\ LET res == cut(smf_cut, range)
       IN /\ pc' = CASE res.status = "ok" -> "cut_twice"
                      [] res.status = "err" -> "refused_again"
                      [] OTHER -> "panicked_again"
          /\ smf_twice' = IF res.status = "ok" THEN res.tracks ELSE smf_twice
    /\ UNCHANGED <<track, samplerate, chunks, note_loop, rec_cursor, recording_loop,
                   time, added, smf, range, smf_cut>>
    /\ UNCHANGED <<mergeVars, parseVars, unfoldVars, endingVars>>

NextCut == Cut \/ CutAgain

SpecCut == InitCut /\ [][NextCut]_vars

----------------------------------------------------------------------------
(* Variables a command leaves alone *)

findVars == <<track, samplerate, chunks, note_loop, rec_cursor, recording_loop>>

timeVars == <<time, added>>

cutVars == <<range, smf_cut, smf_twice>>

FindIdle ==
    /\ track = << >>
    /\ samplerate = FALSE
    /\ chunks = << >>
    /\ note_loop = LoopDefault
    /\ rec_cursor = 0
    /\ recording_loop = LoopDefault

TimeIdle == time = MidiTimeNew /\ added = 0

CutIdle == range = IdleRange /\ smf_cut = << >> /\ smf_twice = << >>

----------------------------------------------------------------------------
(* smf::smf0, one turn of its merge loop at a time *)

MergeAlphabet ==
    {NoteOn(0, 0, 60, 100), NoteOn(1, 0, 60, 100), EndOfTrack(0), EndOfTrack(1)}

\* One or two tracks, as the parser hands them over: a track need not end
\* with EndOfTrack, and need not hold just one
MergeSmfs ==
    LET tracks == SeqsUpTo(MergeAlphabet, MaxMergeLen)
    IN {<<t>> : t \in tracks} \cup {<<t, u>> : t \in tracks, u \in tracks}

InitSmf0 ==
    /\ smf \in MergeSmfs
    /\ pc = "smf0"
    /\ MergeIdle
    /\ ParseIdle
    /\ UnfoldIdle
    /\ EndingIdle
    /\ FindIdle
    /\ TimeIdle
    /\ CutIdle

\* if smf.tracks.len() <= 1 { return smf.write_std(..) }
Smf0AsIs ==
    /\ pc = "smf0"
    /\ Len(smf) <= 1
    /\ pc' = "written_as_is"
    /\ UNCHANGED <<findVars, timeVars, cutVars, parseVars, unfoldVars, endingVars, smf, mergeVars>>

\* The locals before the merge loop
Smf0Begin ==
    /\ pc = "smf0"
    /\ ~(Len(smf) <= 1)
    /\ merge_tracks' = MergeTracksOf(smf, 1)
    /\ merged_pulse' = 0
    /\ delta_last' = 0
    /\ flat' = << >>
    /\ origin' = << >>
    /\ pc' = "merge"
    /\ UNCHANGED <<findVars, timeVars, cutVars, parseVars, unfoldVars, endingVars, smf>>

\* One turn of `while let Some((merge_i, merge)) = ...`
Smf0Merge ==
    /\ pc = "merge"
    /\ merge_tracks # << >>
    /\ LET merge_i == MinByPulse(merge_tracks)
           merge == merge_tracks[merge_i]
           ev == At(smf[merge.src], merge.i)
           delta == merge.pulse_of_i - merged_pulse
       IN /\ delta_last' = delta
          /\ IF ev.kind # "EndOfTrack"
             THEN /\ flat' = Append(flat, [ev EXCEPT !.delta = delta])
                  /\ origin' = Append(origin, [src |-> merge.src, i |-> merge.i])
             ELSE UNCHANGED <<flat, origin>>
          /\ IF merge.i + 1 >= merge.len
             THEN /\ merge_tracks' = RemoveAt(merge_tracks, merge_i)
                  /\ UNCHANGED merged_pulse
             ELSE /\ merged_pulse' = merge.pulse_of_i
                  /\ merge_tracks' =
                        [merge_tracks EXCEPT
                            ![merge_i] = [merge EXCEPT
                                !.i = merge.i + 1,
                                !.pulse_of_i = merge.pulse_of_i
                                               + At(smf[merge.src], merge.i + 1).delta]]
    /\ UNCHANGED <<findVars, timeVars, cutVars, parseVars, unfoldVars, endingVars, smf, pc>>

\* The closing EndOfTrack, and smf0.write_std(..)
Smf0End ==
    /\ pc = "merge"
    /\ merge_tracks = << >>
    /\ flat' = Append(flat, EndOfTrack(delta_last))
    /\ pc' = "written_flat"
    /\ UNCHANGED <<findVars, timeVars, cutVars, parseVars, unfoldVars, endingVars, smf, merge_tracks, merged_pulse, delta_last,
                   origin>>

NextSmf0 == Smf0AsIs \/ Smf0Begin \/ Smf0Merge \/ Smf0End

SpecSmf0 == InitSmf0 /\ [][NextSmf0]_vars

----------------------------------------------------------------------------
(* A B/P argument parsed and resolved *)

\* n written in decimal
RECURSIVE Dec(_)
Dec(n) == IF n < 10 THEN <<Digits[n + 1]>> ELSE Dec(n \div 10) \o <<Digits[(n % 10) + 1]>>

\* The numbers written out as inputs: the small ones, the ones of the
\* scenario, and the ones around the 15-bit and 16-bit limits
Numbers == 0..MaxNumber \cup {240, 2160, 32767, 32768, 40000, 65535, 65536}

\* A side of qn:pulse, -1 standing for an omitted one
Side(n) == IF n = -1 THEN << >> ELSE Dec(n)

Sides == Numbers \cup {-1}

InputAlphabet == {"4", ":", "+", "x"}

Inputs ==
    {Side(qn) \o <<":">> \o Side(p) : qn \in Sides, p \in Sides}
    \cup {Dec(n) : n \in Numbers}
    \cup SeqsUpTo(InputAlphabet, MaxInputLen)

InitParse ==
    /\ input \in Inputs
    /\ timing \in {Metrical(PPQN), Metrical(96), Timecode}
    /\ parsed = Err
    /\ total = Err
    /\ pc = "parse"
    /\ smf = << >>
    /\ FindIdle
    /\ TimeIdle
    /\ CutIdle
    /\ MergeIdle
    /\ UnfoldIdle
    /\ EndingIdle

\* s.parse::<PulseOrBeat>()
Parse ==
    /\ pc = "parse"
    /\ parsed' = from_str(input)
    /\ pc' = IF parsed'.ok THEN "parsed" ELSE "bad_input"
    /\ UNCHANGED <<findVars, timeVars, cutVars, mergeVars, unfoldVars, endingVars, smf, input, timing, total>>

\* value.total_pulse(timing)
TotalPulse ==
    /\ pc = "parsed"
    /\ total' = total_pulse(parsed.v, timing)
    /\ pc' = IF total'.ok THEN "resolved" ELSE "unsupported"
    /\ UNCHANGED <<findVars, timeVars, cutVars, mergeVars, unfoldVars, endingVars, smf, input, timing, parsed>>

NextParse == Parse \/ TotalPulse

SpecParse == InitParse /\ [][NextParse]_vars

----------------------------------------------------------------------------
(* The loop commands on a sequence of any number of tracks *)

UnfoldAlphabet ==
    {NoteOn(1, 0, 60, 100), NoteOn(0, 0, 62, 100), EndOfTrack(0), EndOfTrack(1)}

\* No track, one track, or two with a second track that may lack EndOfTrack
LoopSmfs ==
    LET firsts == SeqsUpTo(UnfoldAlphabet, MaxUnfoldLen)
        seconds == {<<NoteOn(2, 1, 64, 100), EndOfTrack(0)>>,
                    <<NoteOn(1, 1, 64, 100), NoteOn(1, 1, 64, 0)>>}
    IN {<< >>} \cup {<<t>> : t \in firsts} \cup {<<t, u>> : t \in firsts, u \in seconds}

InitLoopCommands ==
    /\ smf \in LoopSmfs
    /\ pc \in {"loopfind", "loopunfold"}
    /\ unfold_start \in IF pc = "loopunfold" THEN 0..(EndPulse(smf) + 1) ELSE {0}
    /\ smf_unfolded = smf
    /\ FindIdle
    /\ TimeIdle
    /\ CutIdle
    /\ MergeIdle
    /\ ParseIdle
    /\ EndingIdle

\* find: if smf.tracks.len() != 1 { return Err(..) }
FindTrackCountError ==
    /\ pc = "loopfind"
    /\ Len(smf) # 1
    /\ pc' = "track_count_error"
    /\ UNCHANGED <<findVars, timeVars, cutVars, mergeVars, parseVars, unfoldVars,
                   endingVars, smf>>

\* find: let track = &smf.tracks[0], and the search begins
FindSingleTrack ==
    /\ pc = "loopfind"
    /\ ~(Len(smf) # 1)
    /\ track' = smf[1]
    /\ pc' = "searching"
    /\ UNCHANGED <<samplerate, chunks, note_loop, rec_cursor, recording_loop,
                   timeVars, cutVars, mergeVars, parseVars, unfoldVars, endingVars, smf>>

\* loop_unfold(smf, start)
LoopUnfold ==
    /\ pc = "loopunfold"
    /\ LET res == loop_unfold(smf, unfold_start)
       IN /\ smf_unfolded' = res.tracks
          /\ pc' = CASE res.status = "ok" -> "unfolded"
                      [] res.status = "pulse" -> "pulse_out_of_range"
                      [] OTHER -> "missing_end_of_track"
    /\ UNCHANGED <<findVars, timeVars, cutVars, mergeVars, parseVars, endingVars, smf,
                   unfold_start>>

NextLoopCommands == FindTrackCountError \/ FindSingleTrack \/ LoopUnfold

SpecLoopCommands == InitLoopCommands /\ [][NextLoopCommands]_vars

----------------------------------------------------------------------------
(* One call of find_loop_ending_at, one iteration and one scanned event at *)
(* a time                                                                  *)

EndingAlphabet ==
    {NoteOn(240, 0, 60, 100), NoteOn(240, 0, 60, 0), NoteOff(240, 0, 60, 64),
     Controller(240, 0, 7, 5)}

EndingTracks == SeqsUpTo(EndingAlphabet, MaxEndingLen) \ {<< >>}

\* cursor indexes the track, and cursor - min_len does not underflow
InitEnding ==
    /\ track \in EndingTracks
    /\ e_cursor \in 0..(Len(track) - 1)
    /\ e_earliest \in 0..e_cursor
    /\ e_min_len \in 0..Min(1, e_cursor)
    /\ e_recording \in BOOLEAN
    /\ e_start = e_earliest
    /\ e_before = UpdateAll(MidiStateNew, SkipTake(track, 0, e_earliest))
    /\ e_scan = ScanInit(e_before)
    /\ e_scanned = 0
    /\ e_skip = ""
    /\ e_found = NoLoop
    /\ pc = "start"
    /\ samplerate = FALSE
    /\ chunks = << >>
    /\ note_loop = LoopDefault
    /\ rec_cursor = 0
    /\ recording_loop = LoopDefault
    /\ smf = << >>
    /\ TimeIdle
    /\ CutIdle
    /\ MergeIdle
    /\ ParseIdle
    /\ UnfoldIdle

\* The top of an iteration, down to the comparison of the two ranges
StartIteration ==
    /\ pc = "start"
    /\ e_start < e_cursor - e_min_len
    /\ LET start_ev == At(track, e_start)
           cursor_ev == At(track, e_cursor)
           skip == CASE PulseBoundarySkip(start_ev, cursor_ev) -> "pulse"
                     [] ProgramChangeSkip(start_ev) -> "program"
                     [] start_ev # cursor_ev -> "event"
                     [] RangeDiffers(track, e_start, e_cursor) -> "range"
                     [] OTHER -> ""
       IN /\ e_before' = UpdateStateBefore(e_before, start_ev)
          /\ e_skip' = skip
          /\ IF skip # ""
             THEN /\ e_start' = e_start + 1
                  /\ UNCHANGED <<e_scan, e_scanned, pc>>
             ELSE /\ e_scan' = ScanInit(e_before')
                  /\ e_scanned' = 0
                  /\ pc' = "scan"
                  /\ UNCHANGED e_start
    /\ UNCHANGED <<findVars, timeVars, cutVars, mergeVars, parseVars, unfoldVars, smf,
                   e_cursor, e_earliest, e_min_len, e_recording, e_found>>

\* One turn of `for ev in track.iter().skip(start).take(len)`
ScanEvent ==
    /\ pc = "scan"
    /\ e_scanned < e_cursor - e_start
    /\ e_scan' = ScanStep(e_scan, At(track, e_start + e_scanned))
    /\ e_scanned' = e_scanned + 1
    /\ UNCHANGED <<findVars, timeVars, cutVars, mergeVars, parseVars, unfoldVars, smf, pc,
                   e_cursor, e_earliest, e_min_len, e_recording, e_start, e_before,
                   e_skip, e_found>>

\* After the scan: the active-note test, the override of the redundant
\* controllers, the state test and the self-similarity test
Decide ==
    /\ pc = "scan"
    /\ e_scanned = e_cursor - e_start
    /\ LET new == [start |-> e_start, len |-> e_cursor - e_start]
           skip == CASE ActiveNoteSkip(e_recording, e_scan, e_before) -> "active_notes"
                     [] StateSkip(e_scan, e_before) -> "state"
                     [] loop_contains_itself(track, new) -> "self_similar"
                     [] OTHER -> ""
       IN /\ e_skip' = skip
          /\ IF skip # ""
             THEN /\ e_start' = e_start + 1
                  /\ pc' = "start"
                  /\ UNCHANGED e_found
             ELSE /\ e_found' = [some |-> TRUE, start |-> new.start, len |-> new.len]
                  /\ pc' = "found"
                  /\ UNCHANGED e_start
    /\ UNCHANGED <<findVars, timeVars, cutVars, mergeVars, parseVars, unfoldVars, smf,
                   e_cursor, e_earliest, e_min_len, e_recording, e_before, e_scan,
                   e_scanned>>

\* The range of starts is used up: None
NoStartLeft ==
    /\ pc = "start"
    /\ ~(e_start < e_cursor - e_min_len)
    /\ e_found' = NoLoop
    /\ pc' = "none"
    /\ UNCHANGED <<findVars, timeVars, cutVars, mergeVars, parseVars, unfoldVars, smf,
                   e_cursor, e_earliest, e_min_len, e_recording, e_start, e_before,
                   e_scan, e_scanned, e_skip>>

NextEnding == StartIteration \/ ScanEvent \/ Decide \/ NoStartLeft

SpecEnding == InitEnding /\ [][NextEnding]_vars

----------------------------------------------------------------------------
(* Properties of loop_find::find *)

\* find has printed the note-space loop
NoteLoopKnown == pc \in {"recording", "done"}

\* C1: the note-space loop is empty, or it is followed by a full copy of
\* itself inside the track: start + 2 * len <= N, and the events at start + i
\* and start + len + i are equal (delta included) for every i < len.
C1_LoopIsRepeated ==
    NoteLoopKnown =>
        \/ note_loop.len = 0
        \/ /\ note_loop.start + 2 * note_loop.len <= Len(track)
           /\ \A i \in 0..(note_loop.len - 1) :
                At(track, note_loop.start + i)
                    = At(track, note_loop.start + note_loop.len + i)

C1_Witness == NoteLoopKnown /\ note_loop.len >= 2

\* C2: the note-space loop is the best one (longest, then earliest start) among
\* the pairs start < cursor that find_loop_ending_at accepts when it is called
\* with min_len = 0, although the fold passes its running best length as
\* min_len; it is Loop{0,0} exactly when no pair is accepted.
C2_BestAcceptedPair ==
    NoteLoopKnown =>
        LET accepted ==
                {l \in [start : 0..Len(track), len : 1..Len(track)] :
                    /\ l.start + l.len < Len(track)
                    /\ find_loop_ending_at(l.start + l.len, l.start, 0, track, FALSE)
                            = [some |-> TRUE, start |-> l.start, len |-> l.len]}
        IN IF accepted = {}
           THEN note_loop = LoopDefault
           ELSE /\ note_loop \in accepted
                /\ \A m \in accepted :
                    \/ m.len < note_loop.len
                    \/ m.len = note_loop.len /\ m.start >= note_loop.start

\* The track holds accepted pairs of different lengths, and a pair as long as
\* the best one at a later start
C2_Witness ==
    /\ NoteLoopKnown
    /\ note_loop.len >= 2
    /\ \E s \in (note_loop.start + 1)..Len(track) :
        /\ s + 2 * note_loop.len <= Len(track)
        /\ find_loop_ending_at(s + note_loop.len, s, 0, track, FALSE).some
        /\ find_loop_ending_at(s + note_loop.len, s, 0, track, FALSE).start = s

\* C3: whatever the split of the cursor range into chunks, the interleaving of
\* the folds and the order of the reductions, the note-space loop is the one a
\* single fold over all cursors in order yields.
C3_SameAsSequentialFold ==
    NoteLoopKnown =>
        LET folded[c \in 0..Len(track)] ==
                IF c = 0 THEN LoopDefault
                ELSE UnwrapOr(find_loop_ending_at(c - 1, 0, folded[c - 1].len,
                                                  track, FALSE),
                              folded[c - 1])
        IN note_loop = folded[Len(track)]

\* Two chunks are folded and hold different loops of the same length
C3_Witness ==
    /\ pc = "fold"
    /\ Len(chunks) = 2
    /\ \A w \in 1..2 : chunks[w].next = chunks[w].end
    /\ chunks[1].longest.len > 0
    /\ chunks[1].longest.len = chunks[2].longest.len
    /\ chunks[1].longest.start # chunks[2].longest.start

\* C4: a non-empty loop, of the note-space or of the recording-space search,
\* starts and ends on events with a non-zero delta.
C4_PulseBoundary ==
    /\ NoteLoopKnown /\ note_loop.len > 0 =>
        /\ At(track, note_loop.start).delta # 0
        /\ At(track, note_loop.start + note_loop.len).delta # 0
    /\ pc = "done" /\ recording_loop.len > 0 =>
        /\ At(track, recording_loop.start).delta # 0
        /\ At(track, recording_loop.start + recording_loop.len).delta # 0

\* Both searches found a loop in a track that holds events with delta 0
C4_Witness ==
    /\ pc = "done"
    /\ note_loop.len > 0
    /\ recording_loop.len > 0
    /\ \E i \in 1..Len(track) : track[i].delta = 0

\* The loop l is made of k equal sections
Periodic(l, k) ==
    \A j \in 1..(k - 1) :
        SubSeq(track, l.start + j * (l.len \div k) + 1, l.start + (j + 1) * (l.len \div k))
            = SubSeq(track, l.start + 1, l.start + (l.len \div k))

\* C5: no loop find reports is k-periodic for a k that divides its length with
\* 2 <= k <= len / 2.
C5_NotPeriodic ==
    /\ NoteLoopKnown =>
        \A k \in 2..(note_loop.len \div 2) :
            note_loop.len % k = 0 => ~Periodic(note_loop, k)
    /\ pc = "done" =>
        \A k \in 2..(recording_loop.len \div 2) :
            recording_loop.len % k = 0 => ~Periodic(recording_loop, k)

\* A loop long enough to have such a k
C5_Witness == NoteLoopKnown /\ note_loop.len >= 4

\* C6, as the spec states it: on the track of scenario S1 the note-space search
\* returns Loop{start = 1, len = 4}.
C6_S1LoopAsStated ==
    NoteLoopKnown /\ track = S1Track => note_loop = [start |-> 1, len |-> 4]

\* C6, amended: on the track of scenario S1 the note-space search finds no
\* loop.  Event 1 has delta 0 and differs from event 5 in its delta, and the
\* phrase that starts at event 2 is not followed by a full copy of itself.
C6_S1NoLoop == NoteLoopKnown /\ track = S1Track => note_loop = LoopDefault

C6_Witness == pc = "done" /\ track = S1Track

\* C7: on the track of scenario S2, eight equal events with a non-zero delta,
\* the note-space search finds no loop.
C7_S2NoLoop == NoteLoopKnown /\ track = S2Track => note_loop = LoopDefault

\* The search has run on the track of S2 and reports a loop of three events
C7_Witness == pc = "done" /\ track = S2Track /\ note_loop = [start |-> 0, len |-> 3]

----------------------------------------------------------------------------
(* Properties of the recording-space search *)

\* The channel and tempo state after the first n events of the track
StateAfter(n) == UpdateAll(MidiStateNew, SubSeq(track, 1, n))

\* The active-note counters after the events [s, c): a NoteOn with a velocity
\* counts up, a NoteOn with velocity 0 counts down, but not below zero
ActiveNotes(s, c) ==
    LET cnt[i \in s..c] ==
            IF i = s THEN [ch \in 0..(NumChannels - 1) |-> 0]
            ELSE LET ev == At(track, i - 1)
                 IN IF ev.kind # "NoteOn" THEN cnt[i - 1]
                    ELSE IF ev.d2 > 0 THEN [cnt[i - 1] EXCEPT ![ev.ch] = @ + 1]
                    ELSE IF cnt[i - 1][ev.ch] > 0
                         THEN [cnt[i - 1] EXCEPT ![ev.ch] = @ - 1]
                         ELSE cnt[i - 1]
    IN cnt[c]

\* The controllers changed in [s, c) before their channel played a note in it
RedundantCCs(s, c) ==
    {<<At(track, i).ch, At(track, i).d1>> :
        i \in {i \in s..(c - 1) :
                /\ At(track, i).kind = "Controller"
                /\ \A j \in s..(i - 1) :
                    ~(/\ At(track, j).kind = "NoteOn"
                      /\ At(track, j).d2 > 0
                      /\ At(track, j).ch = At(track, i).ch)}}

\* The two state tests on the body [s, c), the state before it being the one
\* after the first n events: every channel with an active note has the same
\* channel state before and after, the redundant controllers included; and all
\* of the state is the same but for the redundant controllers.
StateTestsPass(s, c, n) ==
    LET before == StateAfter(n)
        after == StateAfter(c)
    IN /\ \A ch \in 0..(NumChannels - 1) :
            ActiveNotes(s, c)[ch] > 0 => before.ch[ch] = after.ch[ch]
       /\ before.tempo = after.tempo
       /\ \A ch \in 0..(NumChannels - 1) :
            /\ before.ch[ch].program = after.ch[ch].program
            /\ before.ch[ch].bend = after.ch[ch].bend
            /\ \A cc \in 0..(NumControllers - 1) :
                <<ch, cc>> \notin RedundantCCs(s, c) =>
                    before.ch[ch].cc[cc] = after.ch[ch].cc[cc]

\* The rules of the search that do not look at the state
StructureRulesPass(s, c) ==
    /\ At(track, s).delta # 0
    /\ At(track, c).delta # 0
    /\ At(track, s).kind # "ProgramChange"
    /\ c + (c - s) <= Len(track)
    /\ SubSeq(track, s + 1, c) = SubSeq(track, c + 1, c + (c - s))
    /\ \A k \in 2..((c - s) \div 2) :
        (c - s) % k = 0 => ~Periodic([start |-> s, len |-> c - s], k)

\* The candidates of the recording-space search, in the order it tries them
RecordingCandidates ==
    {p \in (0..Len(track)) \X (0..Len(track)) :
        /\ note_loop.start <= p[1]
        /\ p[1] < p[2]
        /\ note_loop.start + note_loop.len <= p[2]
        /\ p[2] < Len(track)}

\* The recording-space search ran and ended
RecordingDone == pc = "done" /\ samplerate /\ note_loop.len # 0

\* The recording-space loop passes the state tests, and it is the first
\* candidate, in the order of the search, that passes them and the other rules
RecordingLoopIsFirstPassing(n_before(_)) ==
    /\ recording_loop.len > 0 =>
        StateTestsPass(recording_loop.start,
                       recording_loop.start + recording_loop.len,
                       n_before(recording_loop.start))
    /\ \A p \in RecordingCandidates :
        StructureRulesPass(p[1], p[2]) /\ StateTestsPass(p[1], p[2], n_before(p[1])) =>
            /\ recording_loop.len > 0
            /\ \/ recording_loop.start + recording_loop.len < p[2]
               \/ /\ recording_loop.start + recording_loop.len = p[2]
                  /\ recording_loop.start <= p[1]

UpTo(start) == start

Through(start) == start + 1

\* C8, as the spec states it: the loop of the recording-space search passes
\* both state tests with the state before the body, the replay of the events
\* [0, start), compared with the state after the body, the replay of
\* [0, start + len); candidates that fail are skipped and the search goes on.
C8_StateBeforeBody == RecordingDone => RecordingLoopIsFirstPassing(UpTo)

\* C8, amended: the same, but the state compared with the state after the body
\* is the one after the first event of the body, the replay of [0, start].
C8_StateAfterStartEvent == RecordingDone => RecordingLoopIsFirstPassing(Through)

\* The search skipped the note-space loop for its state and found a later one
C8_Witness ==
    /\ RecordingDone
    /\ recording_loop.len > 0
    /\ recording_loop # note_loop
    /\ StructureRulesPass(note_loop.start, note_loop.start + note_loop.len)

\* The recording-space search returned a loop
RecordingFound == RecordingDone /\ recording_loop.len > 0

\* The recording-space loop ends at the first cursor, from the end of the
\* note-space loop on, at which find_loop_ending_at returns a loop
FirstHit ==
    /\ find_loop_ending_at(recording_loop.start + recording_loop.len, note_loop.start,
                           0, track, TRUE).some
    /\ \A cursor \in (note_loop.start + note_loop.len)
                      ..(recording_loop.start + recording_loop.len - 1) :
          ~find_loop_ending_at(cursor, note_loop.start, 0, track, TRUE).some

\* C19, as the spec states it: the recording-space search returns the first
\* hit in increasing cursor order from L.start + L.len on, and a loop R it
\* returns contains the note-space loop L: R.start <= L.start and
\* R.start + R.len >= L.start + L.len.
C19_RecordingContainsNoteLoop ==
    RecordingFound =>
        /\ FirstHit
        /\ recording_loop.start <= note_loop.start
        /\ recording_loop.start + recording_loop.len >= note_loop.start + note_loop.len

\* C19, amended: the recording-space search returns the first hit in
\* increasing cursor order from L.start + L.len on, and a loop R it returns
\* starts and ends no earlier than the note-space loop L: R.start >= L.start
\* and R.start + R.len >= L.start + L.len.  R need not contain L.
C19_RecordingNotBeforeNoteLoop ==
    RecordingFound =>
        /\ FirstHit
        /\ recording_loop.start >= note_loop.start
        /\ recording_loop.start + recording_loop.len >= note_loop.start + note_loop.len

\* The recording-space loop starts after the note-space loop does
C19_Witness == RecordingFound /\ recording_loop.start > note_loop.start

----------------------------------------------------------------------------
(* Properties of MidiTime *)

\* A Tempo meta event is among the first n events of the track
TempoAmong(n) == \E i \in 1..n : track[i].kind = "Tempo"

\* C9, as the spec states it: after any prefix of a track is added, realtime is
\* defined iff a Tempo meta event is among the events added.
C9_RealtimeIffTempo == pc = "time" => (time.realtime.some <=> TempoAmong(added))

\* What add computes instead: realtime is defined iff one of the events added
\* came after a Tempo meta event and left the pulse at 0.  Neither the Tempo
\* event itself nor an event after it that moves the pulse off 0 defines it.
RealtimeDefinedAsComputed ==
    pc = "time" =>
        (time.realtime.some <=>
            \E j \in 1..added :
                TempoAmong(j - 1) /\ TrackPulse(SubSeq(track, 1, j)) = 0)

\* A Tempo meta event at pulse 0, then a note a beat later: realtime undefined
C9_Witness ==
    /\ pc = "time"
    /\ added = 2
    /\ track[1] = Tempo(0, 500000)
    /\ track[2] = NoteOn(240, 0, 60, 100)
    /\ ~time.realtime.some

----------------------------------------------------------------------------
(* Properties of manip::cut *)

\* The tracks without the EndOfTrack event they end with
WithoutTerminator(tracks) ==
    [i \in DOMAIN tracks |->
        IF ends_with_end_of_track_event(tracks[i])
        THEN SubSeq(tracks[i], 1, Len(tracks[i]) - 1)
        ELSE tracks[i]]

\* C10, as the spec states it: a second cut with the same range leaves the
\* tracks of the first cut as they are, up to the EndOfTrack terminator.
C10_CutIdempotent ==
    pc = "cut_twice" => WithoutTerminator(smf_twice) = WithoutTerminator(smf_cut)

\* C10, amended: when the end of the range is omitted, so that the cut runs to
\* the end of the sequence, a second cut with the same range is accepted and
\* leaves every track of the first cut as it is.
C10_CutToEndIdempotent ==
    pc \in {"cut_twice", "refused_again", "panicked_again"} /\ ~range.end.some =>
        pc = "cut_twice" /\ smf_twice = smf_cut

\* The first cut removed events from a track of three, and the second cut ran
C10_Witness ==
    /\ pc = "cut_twice"
    /\ ~range.end.some
    /\ Len(smf[1]) = 3
    /\ Len(smf_cut[1]) < 3

----------------------------------------------------------------------------
(* Properties of smf::smf0 *)

\* The k-th event of the flattened track fires at the pulse it had in its track
FiresAtSourcePulse(k) ==
    TrackPulse(SubSeq(flat, 1, k))
        = TrackPulse(SubSeq(smf[origin[k].src], 1, origin[k].i + 1))

\* Every track ends with EndOfTrack and holds no other EndOfTrack
Terminated(tracks) ==
    \A t \in DOMAIN tracks :
        /\ ends_with_end_of_track_event(tracks[t])
        /\ \A i \in 1..(Len(tracks[t]) - 1) : tracks[t][i].kind # "EndOfTrack"

\* C11: every event smf0 retains in the flattened track fires there at the
\* cumulative pulse it has in its source track.
C11_Smf0PreservesPulse ==
    pc \in {"merge", "written_flat"} => \A k \in DOMAIN origin : FiresAtSourcePulse(k)

\* What holds instead: the pulses are preserved when every track is terminated
\* by its only EndOfTrack
Smf0PreservesPulseOfTerminated ==
    pc \in {"merge", "written_flat"} /\ Terminated(smf) =>
        \A k \in DOMAIN origin : FiresAtSourcePulse(k)

\* Two tracks are flattened, the first ends without EndOfTrack at pulse 1, and
\* the note of the second at pulse 1 fires at pulse 2
C11_Witness ==
    /\ pc = "written_flat"
    /\ smf = <<<<NoteOn(1, 0, 60, 100)>>, <<NoteOn(1, 0, 60, 100), EndOfTrack(0)>>>>
    /\ Len(flat) = 3
    /\ TrackPulse(SubSeq(flat, 1, 2)) = 2

----------------------------------------------------------------------------
(* Properties of PulseOrBeat *)

Settled == pc \in {"bad_input", "resolved", "unsupported"}

\* The input resolves to n
ResolvesTo(n) == pc = "resolved" /\ total = Ok(n)

\* C12: at a metrical PPQN, qn:pulse resolves to qn * ppqn + pulse, an omitted
\* side counting as 0, and a bare integer to itself; a pulse part past 15 bits
\* is refused.  At PPQN 480, 4:240 gives 2160, 4: 1920, :240 240, 2160 2160,
\* and 4:40000 is refused.
C12_ParseThenTotalPulse ==
    Settled /\ timing.metrical =>
        /\ \A qn \in Sides, p \in Sides :
              input = Side(qn) \o <<":">> \o Side(p) =>
                  LET qn_value == IF qn = -1 THEN 0 ELSE qn
                      p_value == IF p = -1 THEN 0 ELSE p
                  IN IF p_value <= 32767
                     THEN ResolvesTo(qn_value * timing.ppqn + p_value)
                     ELSE pc = "bad_input"
        /\ \A n \in Numbers : input = Dec(n) => ResolvesTo(n)
        /\ timing.ppqn = 480 =>
              /\ input = <<"4", ":", "2", "4", "0">> => ResolvesTo(2160)
              /\ input = <<"4", ":">> => ResolvesTo(1920)
              /\ input = <<":", "2", "4", "0">> => ResolvesTo(240)
              /\ input = <<"2", "1", "6", "0">> => ResolvesTo(2160)
        /\ input = <<"4", ":", "4", "0", "0", "0", "0">> => pc = "bad_input"

\* 4:240 has been resolved at PPQN 480
C12_Witness ==
    /\ pc = "resolved"
    /\ timing = Metrical(480)
    /\ input = <<"4", ":", "2", "4", "0">>
    /\ total = Ok(2160)

----------------------------------------------------------------------------
(* Properties of the loop commands *)

\* C13: on a sequence of more than one track, find fails with the track-count
\* error, and loop_unfold fails too, modifying and writing no track.
C13_MultiTrackRefused ==
    Len(smf) > 1 =>
        /\ pc \notin {"searching", "unfolded"}
        /\ smf_unfolded = smf

\* What holds instead: find refuses every sequence that has not exactly one track
FindRefusesMultiTrack == Len(smf) # 1 => pc # "searching"

\* loop_unfold has unfolded and written both tracks of a two-track sequence
C13_Witness ==
    /\ pc = "unfolded"
    /\ Len(smf) = 2
    /\ smf_unfolded # smf

\* The events [a, b) of track t
Slice(t, a, b) == SubSeq(t, a + 1, b)

\* The first event of t at or after pulse p, by its index
FirstAtOrAfter(t, p) ==
    CHOOSE i \in 0..(Len(t) - 1) :
        /\ TrackPulse(SubSeq(t, 1, i + 1)) >= p
        /\ \A j \in 0..(i - 1) : TrackPulse(SubSeq(t, 1, j + 1)) < p

\* An event of t lies at or after pulse p
ReachesPulse(t, p) == \E i \in 1..Len(t) : TrackPulse(SubSeq(t, 1, i)) >= p

\* C18: after loop_unfold has succeeded, a track of N events is its events
\* before the EndOfTrack, then a copy of the events [i_start, N-1), then the
\* EndOfTrack, i_start being the first event at or after the start pulse; a
\* track that does not end with EndOfTrack makes the call fail.
C18_UnfoldKeepsEndOfTrack ==
    /\ pc = "unfolded" =>
          \A i \in DOMAIN smf :
              ReachesPulse(smf[i], unfold_start) =>
                  LET t == smf[i]
                      n == Len(t)
                      i_start == FirstAtOrAfter(t, unfold_start)
                  IN /\ smf_unfolded[i]
                          = Slice(t, 0, n - 1) \o Slice(t, i_start, n - 1) \o <<t[n]>>
                     /\ ends_with_end_of_track_event(smf_unfolded[i])
    /\ (\E i \in DOMAIN smf : ~ends_with_end_of_track_event(smf[i])) =>
          pc \in {"loopfind", "loopunfold", "track_count_error", "searching",
                  "pulse_out_of_range", "missing_end_of_track"}

\* What holds instead: the copy is appended in place of the EndOfTrack
UnfoldDropsEndOfTrack ==
    pc = "unfolded" =>
        \A i \in DOMAIN smf :
            ReachesPulse(smf[i], unfold_start) =>
                LET t == smf[i]
                    n == Len(t)
                    i_start == FirstAtOrAfter(t, unfold_start)
                IN smf_unfolded[i] = Slice(t, 0, n - 1) \o Slice(t, i_start, n - 1)

\* A single track of two notes and the EndOfTrack has been unfolded from its
\* second note on, and what is written ends with a note
C18_Witness ==
    /\ pc = "unfolded"
    /\ smf = <<<<NoteOn(1, 0, 60, 100), NoteOn(1, 0, 60, 100), EndOfTrack(0)>>>>
    /\ unfold_start = 2
    /\ smf_unfolded = <<<<NoteOn(1, 0, 60, 100), NoteOn(1, 0, 60, 100),
                          NoteOn(1, 0, 60, 100)>>>>

----------------------------------------------------------------------------
(* Properties of one call of find_loop_ending_at *)

\* The call returns what the function of the search returns
EndingAsFunction ==
    pc \in {"found", "none"} =>
        e_found = find_loop_ending_at(e_cursor, e_earliest, e_min_len, track, e_recording)

\* An iteration has run
Examined == pc \in {"scan", "found"} \/ e_skip # ""

\* The start of the iteration that ran last
ExaminedStart == IF pc \in {"scan", "found"} THEN e_start ELSE e_start - 1

\* The body [s, c) leaves the tempo, the programs, the pitch bends and the
\* controllers that are not redundant as they are after the event at s
NoteStateTestPasses(s, c) ==
    LET before == StateAfter(s + 1)
        after == StateAfter(c)
    IN /\ before.tempo = after.tempo
       /\ \A ch \in 0..(NumChannels - 1) :
            /\ before.ch[ch].program = after.ch[ch].program
            /\ before.ch[ch].bend = after.ch[ch].bend
            /\ \A cc \in 0..(NumControllers - 1) :
                <<ch, cc>> \notin RedundantCCs(s, c) =>
                    before.ch[ch].cc[cc] = after.ch[ch].cc[cc]

\* C14, as the spec states it: in note space no state test runs, so a
\* candidate that passes the pulse-boundary, program-change, event, range and
\* self-similarity rules is accepted whatever the state at its two ends.
C14_NoStateTestInNoteSpace ==
    ~e_recording /\ e_skip \in {"active_notes", "state"} =>
        loop_contains_itself(track, [start |-> ExaminedStart,
                                     len |-> e_cursor - ExaminedStart])

\* C14, amended: only the active-note test is limited to recording space.
\* The comparison of the whole state, redundant controllers discounted, runs
\* in both spaces: no call accepts a candidate whose state differs between
\* its two ends, and the candidates the state test rejects are the ones whose
\* state differs.
C14_StateTestInBothSpaces ==
    /\ e_skip = "active_notes" => e_recording
    /\ pc = "found" => NoteStateTestPasses(e_found.start, e_found.start + e_found.len)
    /\ e_skip = "state" => ~NoteStateTestPasses(ExaminedStart, e_cursor)

\* In note space a candidate that is not periodic was rejected for its state
C14_Witness ==
    /\ ~e_recording
    /\ e_skip = "state"
    /\ ~loop_contains_itself(track, [start |-> ExaminedStart,
                                      len |-> e_cursor - ExaminedStart])

\* A NoteOn of any velocity on ch is among the events [s, c)
AnyNoteOn(s, c, ch) ==
    \E j \in s..(c - 1) : At(track, j).kind = "NoteOn" /\ At(track, j).ch = ch

\* A NoteOn with a velocity above 0 on ch is among the events [s, c)
SoundingNoteOn(s, c, ch) ==
    \E j \in s..(c - 1) :
        At(track, j).kind = "NoteOn" /\ At(track, j).ch = ch /\ At(track, j).d2 > 0

\* C15, as the spec states it: during the scan of a body, played_a_note[ch] is
\* set by every NoteOn on ch, velocity 0 included, so a Controller after a
\* velocity-0 NoteOn on its channel is not among the redundant ones.
C15_PlayedByAnyNoteOn ==
    pc = "scan" =>
        /\ \A ch \in 0..(NumChannels - 1) :
              e_scan.played_a_note[ch] <=> AnyNoteOn(e_start, e_start + e_scanned, ch)
        /\ \A i \in e_start..(e_start + e_scanned - 1) :
              At(track, i).kind = "Controller" /\ AnyNoteOn(e_start, i, At(track, i).ch) =>
                  <<At(track, i).ch, At(track, i).d1>> \notin e_scan.redundant_ccs

\* C15, amended: played_a_note[ch] is set only by a NoteOn on ch with a
\* velocity above 0.  A Controller on ch that only velocity-0 NoteOns on ch
\* precede in the body is added to redundant_ccs, and its change is excluded
\* from the state comparison.
C15_PlayedByNoteOnWithVelocity ==
    pc = "scan" =>
        /\ \A ch \in 0..(NumChannels - 1) :
              e_scan.played_a_note[ch] <=> SoundingNoteOn(e_start, e_start + e_scanned, ch)
        /\ e_scan.redundant_ccs = RedundantCCs(e_start, e_start + e_scanned)

\* The scan has taken a velocity-0 NoteOn and then a Controller on channel 0
C15_Witness ==
    /\ pc = "scan"
    /\ e_scanned = 2
    /\ At(track, e_start) = NoteOn(240, 0, 60, 0)
    /\ At(track, e_start + 1) = Controller(240, 0, 7, 5)
    /\ <<0, 7>> \in e_scan.redundant_ccs

\* The counters the spec states: a NoteOn with a velocity counts up, a NoteOff
\* and a NoteOn with velocity 0 count down, but not below zero
ActiveNotesAsStated(s, c) ==
    LET cnt[i \in s..c] ==
            IF i = s THEN [ch \in 0..(NumChannels - 1) |-> 0]
            ELSE LET ev == At(track, i - 1)
                 IN IF ev.kind = "NoteOn" /\ ev.d2 > 0
                    THEN [cnt[i - 1] EXCEPT ![ev.ch] = @ + 1]
                    ELSE IF ev.kind \in {"NoteOn", "NoteOff"} /\ cnt[i - 1][ev.ch] > 0
                         THEN [cnt[i - 1] EXCEPT ![ev.ch] = @ - 1]
                         ELSE cnt[i - 1]
    IN cnt[c]

\* C16: after the scan of a body, notes_active_on[ch] is the counter that
\* starts at 0, counts up at every NoteOn on ch with a velocity above 0, and
\* counts down at every NoteOff and every NoteOn with velocity 0 on ch unless
\* it is 0; it is never negative.
C16_ActiveNotesCounter ==
    pc = "scan" /\ e_scanned = e_cursor - e_start =>
        \A ch \in 0..(NumChannels - 1) :
            /\ e_scan.notes_active_on[ch] = ActiveNotesAsStated(e_start, e_cursor)[ch]
            /\ e_scan.notes_active_on[ch] >= 0

\* What holds instead: NoteOff messages leave the counters alone
ActiveNotesAsComputed ==
    pc = "scan" =>
        \A ch \in 0..(NumChannels - 1) :
            /\ e_scan.notes_active_on[ch] = ActiveNotes(e_start, e_start + e_scanned)[ch]
            /\ e_scan.notes_active_on[ch] >= 0

\* The body is a NoteOn with a velocity and the NoteOff that ends it, and the
\* scan still counts an active note
C16_Witness ==
    /\ pc = "scan"
    /\ e_scanned = 2
    /\ e_cursor - e_start = 2
    /\ At(track, e_start) = NoteOn(240, 0, 60, 100)
    /\ At(track, e_start + 1) = NoteOff(240, 0, 60, 64)
    /\ e_scan.notes_active_on[0] = 1

\* The scan of the body is complete
ScanComplete == pc = "found" \/ (pc = "scan" /\ e_scanned = e_cursor - e_start)

\* C17, as the spec states it: at every start examined, state_before is the
\* state after the events before the start, T[start] not among them, and
\* state_past is state_before updated by the events of the body.
C17_StateBeforeExcludesStart ==
    Examined =>
        /\ e_before = StateAfter(ExaminedStart)
        /\ ScanComplete =>
              e_scan.state_past = UpdateAll(e_before, SkipTake(track, e_start, e_cursor - e_start))

\* C17, amended: at every start examined, state_before is the state after the
\* events up to and including T[start], and state_past is state_before updated
\* by the events of the body, T[start] a second time among them, which is the
\* state after the events before the cursor.
C17_StateBeforeIncludesStart ==
    Examined =>
        /\ e_before = StateAfter(ExaminedStart + 1)
        /\ ScanComplete =>
              /\ e_scan.state_past
                    = UpdateAll(e_before, SkipTake(track, e_start, e_cursor - e_start))
              /\ e_scan.state_past = StateAfter(e_cursor)

\* A body that starts with a Controller has been scanned, with an earlier
\* start than the first one and a state that the Controller changed
C17_Witness ==
    /\ pc = "scan"
    /\ e_scanned = e_cursor - e_start
    /\ At(track, e_start).kind = "Controller"
    /\ e_before # StateAfter(e_start)

====
